---- MODULE Spec2Model ----
(***************************************************************************)
(* A model of the file-storage service of src/app/routes.py: the persisted *)
(* metadata document (data/files_metadata.json), the blobs under the       *)
(* upload folder, and the request handlers upload, files, download and     *)
(* delete_file, each run by a worker thread as a sequence of steps         *)
(* (load, per-file processing, save and respond).                          *)
(***************************************************************************)
EXTENDS Integers, Sequences, FiniteSets, TLC

VARIABLES
    doc,      \* the persisted document data/files_metadata.json
    disk,     \* the blobs under the upload folder: path -> content tag
    uuidCtr,  \* how many UUIDs uuid.uuid4() has returned so far
    nreq,     \* how many requests have been received so far
    nent,     \* how many batch entries have been received so far
    req,      \* per worker: the request it serves (locals of the handler)
    prev,     \* the request that completed last
    mode      \* the environment: concurrency and the I/O steps that may fault

vars == <<doc, disk, uuidCtr, nreq, nent, req, prev, mode>>

----------------------------------------------------------------------------
(* Bounds of the model *)

\* requests received in one behaviour
MaxRequests == 3
\* entries in one upload batch
MaxBatch == 2
\* entries uploaded in one behaviour, over all its batches
MaxEntries == 3
\* requests received in one behaviour in which I/O steps may fault
MaxFaultRequests == 2
\* requests received in one behaviour that serves requests concurrently
MaxConcRequests == 2
\* requests received in one behaviour that starts from any document
MaxAnyDocRequests == 2
\* the values uuid4().hex[:8] ranges over (2^32 in the program)
TokenSpace == 2

Workers == {1, 2}

----------------------------------------------------------------------------
(* Configuration: app/__init__.py *)

UPLOAD_FOLDER == "uploads"
ALLOWED_EXTENSIONS == {"pdf", "xlsx", "xls", "docx"}

----------------------------------------------------------------------------
(* The string operations of the handlers, on the filenames of the model:    *)
(* "", "report.pdf", "../report.pdf", "notes.txt" and "Sheet.XLS"          *)

\* '.' in filename
HasDot(n) == n \in {"report.pdf", "../report.pdf", "notes.txt", "Sheet.XLS"}

\* filename.rsplit('.', 1)[1]
RawExt(n) ==
    CASE n = "report.pdf" -> "pdf"
      [] n = "../report.pdf" -> "pdf"
      [] n = "notes.txt" -> "txt"
      [] n = "Sheet.XLS" -> "XLS"
      [] OTHER -> ""

\* str.lower()
Lower(e) == IF e = "XLS" THEN "xls" ELSE e

\* werkzeug.utils.secure_filename: path separators and leading dots go
secure_filename(n) == IF n = "../report.pdf" THEN "report.pdf" ELSE n

allowed_file(n) == HasDot(n) /\ Lower(RawExt(n)) \in ALLOWED_EXTENSIONS

get_file_type(n) ==
    LET ext == Lower(RawExt(n))
    IN  IF ext = "pdf" THEN "pdf"
        ELSE IF ext \in {"xlsx", "xls"} THEN "excel"
        ELSE IF ext = "docx" THEN "docx"
        ELSE "unknown"

\* expected_mimes.get(expected_type, [])
expected_mimes(t) ==
    CASE t = "pdf" -> {"application/pdf"}
      [] t = "excel" -> {"application/vnd.openxmlformats-officedocument.spreadsheetml.sheet",
                         "application/vnd.ms-excel"}
      [] t = "docx" -> {"application/vnd.openxmlformats-officedocument.wordprocessingml.document"}
      [] OTHER -> {}

\* format_file_size, on the sizes of the model
format_file_size(size_bytes) ==
    CASE size_bytes = 0 -> "0 B"
      [] size_bytes = 11 -> "11.0 B"
      [] size_bytes = 2048 -> "2.0 KB"

\* magic.from_file raising is the sniff "MAGIC_ERROR": validation is skipped
validate_file_content(sniff, expected_type) ==
    IF sniff = "MAGIC_ERROR" THEN TRUE ELSE sniff \in expected_mimes(expected_type)

----------------------------------------------------------------------------
(* The inputs of the model *)

\* an uploaded part: its filename, what the detector reports for its bytes,
\* and its size
FileInputs ==
    { [filename |-> "report.pdf",    sniff |-> "application/pdf",          size |-> 2048],
      [filename |-> "../report.pdf", sniff |-> "text/plain",               size |-> 11],
      [filename |-> "Sheet.XLS",     sniff |-> "MAGIC_ERROR",              size |-> 2048],
      [filename |-> "notes.txt",     sniff |-> "text/plain",               size |-> 11],
      [filename |-> "",              sniff |-> "text/plain",               size |-> 0] }

Batches == UNION { [1..n -> FileInputs] : n \in 0..MaxBatch }

\* the I/O steps of a request that may raise
FaultPoints == {"blob_write", "getsize", "blob_remove", "meta_save"}

----------------------------------------------------------------------------
(* UUIDs: uuid4() returns a value it never returned before; hi is the part *)
(* hex[:8] keeps, lo the rest.                                             *)

Uuid(h, n) == [hi |-> h, lo |-> n]
Hex8(u) == u.hi
BogusId == Uuid(0, -1)

----------------------------------------------------------------------------
(* The persisted document and load/save *)

EmptyStore == [kind |-> "store", files |-> <<>>]
DocKinds == {"absent", "store", "invalid_json", "undecodable", "dict_no_files", "not_dict"}

\* a load that looks for the document in the wrong place: it never finds it
LoadFindingNothing(d) == [kind |-> "store", files |-> <<>>]

\* load_files_metadata: the value returned, or "raise" for an exception the
\* function does not catch (a UnicodeDecodeError is no JSONDecodeError)
load_files_metadata(d) ==
    CASE d.kind = "absent" -> EmptyStore
      [] d.kind = "invalid_json" -> EmptyStore
      [] d.kind = "undecodable" -> [kind |-> "raise", files |-> <<>>]
      [] OTHER -> d

\* a save that keeps the records the document holds and adds those it lacks
SaveMerging(d, metadata, fault) ==
    IF fault = "none"
      THEN [kind |-> "store",
            files |-> d.files \o SelectSeq(metadata.files,
                                           LAMBDA x : \A i \in DOMAIN d.files : d.files[i] # x)]
      ELSE IF fault = "open" THEN d
      ELSE [kind |-> "invalid_json", files |-> <<>>]

\* save_files_metadata: open(..., 'w') then json.dump. A fault "open" leaves
\* the document as it was, a fault "write" leaves it truncated.
save_files_metadata(d, metadata, fault) ==
    CASE fault = "none" -> [kind |-> "store", files |-> metadata.files]
      [] fault = "open" -> d
      [] fault = "write" -> [kind |-> "invalid_json", files |-> <<>>]

\* metadata.get('files', [])
GetFiles(metadata) == IF metadata.kind = "store" THEN metadata.files ELSE <<>>

----------------------------------------------------------------------------
(* The blobs on disk *)

DiskPut(d, p, t) == [q \in (DOMAIN d) \cup {p} |-> IF q = p THEN t ELSE d[q]]
DiskDel(d, p) == [q \in (DOMAIN d) \ {p} |-> d[q]]
EmptyDisk == [q \in {} |-> 0]

----------------------------------------------------------------------------
(* Requests *)

NoRecord == [id |-> BogusId]
NoSummary == [kind |-> "none", arg |-> BogusId, code |-> 0, n |-> 0]
NoResp == [code |-> 0, status |-> "", message |-> "", keys |-> {},
           uploaded_count |-> 0, errors |-> <<>>, files |-> <<>>]

Idle == [pc |-> "idle", kind |-> "none", batch |-> <<>>, arg |-> BogusId, idx |-> 0,
         metadata |-> EmptyStore, uploaded_count |-> 0, upload_errors |-> <<>>,
         target |-> NoRecord, resp |-> NoResp, n |-> 0,
         doc0 |-> EmptyStore, disk0 |-> EmptyDisk, before |-> NoSummary,
         log |-> <<>>, faulted |-> {}, saves |-> 0, overlap |-> FALSE]

Free(w) == req[w].pc \in {"idle", "done"}

\* a request may start: the bound on requests, and one request at a time
\* unless the server runs requests concurrently
MayStart(w) ==
    /\ Free(w)
    /\ \A v \in Workers : v < w => ~Free(v)
    /\ nreq < mode.maxreq
    /\ mode.conc \/ \A v \in Workers : Free(v)

Begin(w, kind) ==
    [Idle EXCEPT !.kind = kind, !.n = nreq + 1, !.doc0 = doc, !.disk0 = disk,
                 !.before = prev]

Json(code, status, message) ==
    [NoResp EXCEPT !.code = code, !.status = status, !.message = message,
                   !.keys = {"status", "message"}]

\* worker w takes the request; the locals of the requests answered before
\* are gone. overlap records that a request ran while another was in progress.
Take(w, r) ==
    [v \in Workers |->
        IF v = w THEN [r EXCEPT !.overlap = \E u \in Workers : ~Free(u)]
        ELSE IF Free(v) THEN Idle
        ELSE [req[v] EXCEPT !.overlap = TRUE]]

Done(r, resp) == [r EXCEPT !.pc = "done", !.resp = resp]

Summary(r) == [kind |-> r.kind, arg |-> r.arg, code |-> r.resp.code, n |-> r.n]

\* the faults the environment may inject at the step being taken
Faults(points) == {"none"} \cup (points \cap mode.faults)

----------------------------------------------------------------------------
(* upload: lines 93-106, the request arrives and the metadata is loaded *)

\* line 97: not uploaded_files or uploaded_files[0].filename == ''
NoFilesSelected(batch) == Len(batch) = 0 \/ batch[1].filename = ""

UploadStart(w) ==
    /\ MayStart(w)
    /\ \E batch \in Batches :
        /\ nent + Len(batch) <= MaxEntries
        /\ nent' = nent + Len(batch)
        /\ LET r0 == [Begin(w, "upload") EXCEPT !.batch = batch]
               metadata == load_files_metadata(doc)
               r1 == IF NoFilesSelected(batch)
                       THEN Done(r0, Json(400, "error", "No files selected"))
                     ELSE IF metadata.kind = "raise"
                       THEN Done(r0, Json(500, "error", "Upload failed"))
                     ELSE [r0 EXCEPT !.pc = "files", !.metadata = metadata, !.idx = 1]
           IN  /\ req' = Take(w, r1)
               /\ prev' = IF r1.pc = "done" THEN Summary(r1) ELSE prev
    /\ nreq' = nreq + 1
    /\ UNCHANGED <<doc, disk, uuidCtr, mode>>

\* line 122: f"{uuid.uuid4().hex[:8]}_{secure_filename(original_filename)}"
UniqueFilename(u, original_filename) == <<Hex8(u), secure_filename(original_filename)>>

\* lines 125-129: os.path.join(UPLOAD_FOLDER, file_type, unique_filename)
FilePath(file_type, unique_filename) == <<UPLOAD_FOLDER, file_type, unique_filename>>

\* the invalid file is left where it was written
KeepInvalidFile(d, file_path) == d

\* line 137: os.remove(file_path) of the file whose content is invalid
RemoveInvalidFile(d, file_path) == DiskDel(d, file_path)

\* lines 142-152
FileMetadata(u, file, unique_filename, file_path, now) ==
    [id |-> u,
     original_name |-> file.filename,
     stored_name |-> unique_filename,
     stored_path |-> file_path,
     file_type |-> get_file_type(file.filename),
     file_size |-> file.size,
     formatted_size |-> format_file_size(file.size),
     upload_date |-> now,
     file_extension |-> Lower(RawExt(file.filename))]

\* lines 109-160: what processing one entry of the batch does. f is the I/O
\* step that faults (if reached), partial whether a faulting write leaves a
\* blob, u1 and u2 the next UUIDs, tag the bytes of the entry.
ProcessFile(file, metadata, d, f, partial, u1, u2, now, tag) ==
    LET original_filename == file.filename
        file_type == get_file_type(original_filename)
        unique_filename == UniqueFilename(u1, original_filename)
        file_path == FilePath(file_type, unique_filename)
        written == DiskPut(d, file_path, tag)
        Out(outcome, dsk, uuids, fault) ==
            [outcome |-> outcome, disk |-> dsk, uuids |-> uuids, fault |-> fault,
             path |-> IF uuids > 0 THEN file_path ELSE <<>>,
             record |-> IF outcome = "ok"
                          THEN FileMetadata(u2, file, unique_filename, file_path, now)
                          ELSE NoRecord]
    IN  IF original_filename = "" THEN Out("skipped", d, 0, "none")
        ELSE IF ~allowed_file(original_filename) THEN Out("Invalid file type", d, 0, "none")
        ELSE IF f = "blob_write"
            THEN Out("exception", IF partial THEN written ELSE d, 1, f)
        ELSE IF f = "getsize" THEN Out("exception", written, 1, f)
        ELSE IF ~validate_file_content(file.sniff, file_type)
            THEN IF f = "blob_remove"
                   THEN Out("exception", written, 1, f)
                   ELSE Out("File content doesn't match extension",
                            RemoveInvalidFile(written, file_path), 1, "none")
        \* metadata['files'] of a value that has no list under 'files' raises
        ELSE IF metadata.kind # "store" THEN Out("exception", written, 2, "none")
        ELSE Out("ok", written, 2, "none")

\* upload: lines 108-160, one iteration of the loop over the batch
UploadFile(w) ==
    /\ req[w].pc = "files"
    /\ req[w].idx <= Len(req[w].batch)
    /\ \E f \in Faults({"blob_write", "getsize", "blob_remove"}), partial \in BOOLEAN,
          h1 \in 0..(TokenSpace - 1), h2 \in 0..(TokenSpace - 1) :
        LET r == req[w]
            file == r.batch[r.idx]
            out == ProcessFile(file, r.metadata, disk, f, partial,
                               Uuid(h1, uuidCtr), Uuid(h2, uuidCtr + 1), r.n, <<r.n, r.idx>>)
            entry == [idx |-> r.idx, outcome |-> out.outcome, tag |-> <<r.n, r.idx>>,
                      path |-> out.path, fault |-> out.fault]
            r1 == [r EXCEPT
                     !.idx = r.idx + 1,
                     !.log = Append(r.log, entry),
                     !.faulted = IF out.fault = "none" THEN @ ELSE @ \cup {out.fault},
                     !.metadata = IF out.outcome = "ok"
                                    THEN [@ EXCEPT !.files = Append(@, out.record)]
                                    ELSE @,
                     !.uploaded_count = IF out.outcome = "ok" THEN @ + 1 ELSE @,
                     !.upload_errors = IF out.outcome \in {"ok", "skipped"} THEN @
                                       ELSE Append(@, <<file.filename, out.outcome>>)]
        IN  \* each outcome is drawn once: a fault the entry does not reach, a
            \* UUID it does not draw
            /\ out.fault = f
            /\ partial => f = "blob_write"
            /\ out.uuids < 2 => h2 = 0
            /\ out.uuids < 1 => h1 = 0
            /\ req' = [req EXCEPT ![w] = r1]
            /\ disk' = out.disk
            /\ uuidCtr' = uuidCtr + out.uuids
    /\ UNCHANGED <<doc, nreq, nent, prev, mode>>

\* the save is not guarded by the count
ShouldSaveAlways(uploaded_count) == uploaded_count >= 0

\* line 163
ShouldSave(uploaded_count) == uploaded_count > 0

\* lines 167-183
UploadResponse(uploaded_count, upload_errors) ==
    IF uploaded_count > 0
      THEN [Json(200, "success", "Successfully uploaded") EXCEPT
              !.keys = @ \cup {"uploaded_count", "errors"},
              !.uploaded_count = uploaded_count,
              !.errors = upload_errors]
      ELSE [Json(400, "error", "No files were uploaded successfully") EXCEPT
              !.keys = @ \cup {"errors"},
              !.errors = upload_errors]

\* upload: lines 162-189, the save and the response
UploadFinish(w) ==
    /\ req[w].pc = "files"
    /\ req[w].idx > Len(req[w].batch)
    /\ \E f \in Faults({"meta_save"}), how \in {"none", "open", "write"} :
        LET r == req[w]
            saving == ShouldSave(r.uploaded_count)
            fault == IF saving /\ f = "meta_save" THEN how ELSE "none"
            resp == IF fault # "none" THEN Json(500, "error", "Upload failed")
                    ELSE UploadResponse(r.uploaded_count, r.upload_errors)
            r1 == Done([r EXCEPT !.saves = IF saving THEN @ + 1 ELSE @,
                                 !.faulted = IF fault = "none" THEN @ ELSE @ \cup {"meta_save"}],
                       resp)
        IN  /\ (how = "none") = (f = "none" \/ ~saving)
            /\ (f = "none" \/ saving)
            /\ doc' = IF saving THEN save_files_metadata(doc, r.metadata, fault) ELSE doc
            /\ req' = [req EXCEPT ![w] = r1]
            /\ prev' = Summary(r1)
    /\ UNCHANGED <<disk, uuidCtr, nreq, nent, mode>>

----------------------------------------------------------------------------
(* files: lines 196-210 *)

\* list.sort(key=upload_date, reverse=True): stable, newest first
RECURSIVE InsertDesc(_, _)
InsertDesc(s, x) ==
    IF s = <<>> THEN <<x>>
    ELSE IF s[Len(s)].upload_date >= x.upload_date THEN Append(s, x)
    ELSE Append(InsertDesc(SubSeq(s, 1, Len(s) - 1), x), s[Len(s)])

RECURSIVE SortDesc(_)
SortDesc(s) ==
    IF s = <<>> THEN <<>>
    ELSE InsertDesc(SortDesc(SubSeq(s, 1, Len(s) - 1)), s[Len(s)])

Files(w) ==
    /\ MayStart(w)
    /\ LET r0 == Begin(w, "files")
           metadata == load_files_metadata(doc)
           \* any exception (the load's, or .get on a value that is no dict)
           \* renders the empty list
           files_list == IF metadata.kind = "store" THEN SortDesc(metadata.files) ELSE <<>>
           resp == [NoResp EXCEPT !.code = 200, !.keys = {"files"}, !.files = files_list]
           r1 == Done(r0, resp)
       IN  /\ req' = Take(w, r1)
           /\ prev' = Summary(r1)
    /\ nreq' = nreq + 1
    /\ UNCHANGED <<doc, disk, uuidCtr, nent, mode>>

----------------------------------------------------------------------------
(* download: lines 214-252 *)

\* the first record of the list with this stored name, or NoRecord
RECURSIVE FindByStoredName(_, _)
FindByStoredName(s, name) ==
    IF s = <<>> THEN NoRecord
    ELSE IF s[1].stored_name = name THEN s[1]
    ELSE FindByStoredName(Tail(s), name)

Range(s) == { s[i] : i \in DOMAIN s }

AllRecords == Range(GetFiles(doc)) \cup UNION { Range(GetFiles(req[v].metadata)) : v \in Workers }

Download(w) ==
    /\ MayStart(w)
    /\ \E name \in { x.stored_name : x \in AllRecords } \cup { <<0, "nosuch.pdf">> } :
        LET r0 == Begin(w, "download")
            metadata == load_files_metadata(doc)
            target_file == FindByStoredName(GetFiles(metadata), name)
            resp == IF metadata.kind \in {"raise", "not_dict"}
                      THEN Json(500, "error", "Download failed")
                    ELSE IF target_file = NoRecord
                      THEN Json(404, "error", "File not found")
                    ELSE IF target_file.stored_path \notin DOMAIN disk
                      THEN Json(404, "error", "File not found on disk")
                    ELSE [NoResp EXCEPT !.code = 200, !.keys = {"attachment"},
                                        !.message = target_file.original_name,
                                        !.files = <<disk[target_file.stored_path]>>]
            r1 == Done(r0, resp)
        IN  /\ req' = Take(w, r1)
            /\ prev' = Summary(r1)
    /\ nreq' = nreq + 1
    /\ UNCHANGED <<doc, disk, uuidCtr, nent, mode>>

----------------------------------------------------------------------------
(* delete_file: lines 256-293 *)

\* the index of the first record of the list with this id, or 0
RECURSIVE IndexOfId(_, _, _)
IndexOfId(s, id, i) ==
    IF i > Len(s) THEN 0
    ELSE IF s[i].id = id THEN i
    ELSE IndexOfId(s, id, i + 1)

\* a pop of the element after the one found
PopOffByOne(s, i) == SubSeq(s, 1, i) \o SubSeq(s, i + 2, Len(s))

\* list.pop(i)
Pop(s, i) == SubSeq(s, 1, i - 1) \o SubSeq(s, i + 1, Len(s))

\* lines 258-275: load, find and pop
DeleteStart(w) ==
    /\ MayStart(w)
    /\ \E file_id \in { x.id : x \in AllRecords } \cup {BogusId, prev.arg} :
        LET r0 == [Begin(w, "delete") EXCEPT !.arg = file_id]
            metadata == load_files_metadata(doc)
            files_list == GetFiles(metadata)
            i == IndexOfId(files_list, file_id, 1)
            r1 == IF metadata.kind \in {"raise", "not_dict"}
                    THEN Done(r0, Json(500, "error", "Delete failed"))
                  ELSE IF i = 0
                    THEN Done(r0, Json(404, "error", "File not found"))
                  ELSE [r0 EXCEPT !.pc = "remove",
                                  !.target = files_list[i],
                                  !.metadata = [metadata EXCEPT !.files = Pop(files_list, i)]]
        IN  /\ req' = Take(w, r1)
            /\ prev' = IF r1.pc = "done" THEN Summary(r1) ELSE prev
    /\ nreq' = nreq + 1
    /\ UNCHANGED <<doc, disk, uuidCtr, nent, mode>>

\* lines 277-279: the blob is removed if it exists
DeleteBlob(w) ==
    /\ req[w].pc = "remove"
    /\ \E f \in Faults({"blob_remove"}) :
        LET r == req[w]
            exists == r.target.stored_path \in DOMAIN disk
            fault == exists /\ f = "blob_remove"
            r1 == IF fault
                    THEN Done([r EXCEPT !.faulted = @ \cup {"blob_remove"}],
                              Json(500, "error", "Delete failed"))
                    ELSE [r EXCEPT !.pc = "save"]
        IN  /\ (f = "none" \/ exists)
            /\ disk' = IF exists /\ ~fault THEN DiskDel(disk, r.target.stored_path) ELSE disk
            /\ req' = [req EXCEPT ![w] = r1]
            /\ prev' = IF r1.pc = "done" THEN Summary(r1) ELSE prev
    /\ UNCHANGED <<doc, uuidCtr, nreq, nent, mode>>

\* lines 281-293: the save and the response
DeleteSave(w) ==
    /\ req[w].pc = "save"
    /\ \E f \in Faults({"meta_save"}), how \in {"none", "open", "write"} :
        LET r == req[w]
            fault == IF f = "meta_save" THEN how ELSE "none"
            resp == IF fault # "none" THEN Json(500, "error", "Delete failed")
                    ELSE Json(200, "success", r.target.original_name)
            r1 == Done([r EXCEPT !.saves = @ + 1,
                                 !.faulted = IF fault = "none" THEN @ ELSE @ \cup {"meta_save"}],
                       resp)
        IN  /\ (how = "none") = (f = "none")
            /\ doc' = save_files_metadata(doc, r.metadata, fault)
            /\ req' = [req EXCEPT ![w] = r1]
            /\ prev' = Summary(r1)
    /\ UNCHANGED <<disk, uuidCtr, nreq, nent, mode>>

----------------------------------------------------------------------------
(* Specifications *)

InitWith(conc, faults, docs, maxreq) ==
    /\ doc \in docs
    /\ disk = EmptyDisk
    /\ uuidCtr = 0
    /\ nreq = 0
    /\ nent = 0
    /\ req = [w \in Workers |-> Idle]
    /\ prev = NoSummary
    /\ mode = [conc |-> conc, faults |-> faults, maxreq |-> maxreq]

Absent == [kind |-> "absent", files |-> <<>>]

\* one request at a time, no I/O fault, no document yet
Init == InitWith(FALSE, {}, {Absent}, MaxRequests)

Next ==
    \E w \in Workers :
        \/ UploadStart(w)
        \/ UploadFile(w)
        \/ UploadFinish(w)
        \/ Files(w)
        \/ Download(w)
        \/ DeleteStart(w)
        \/ DeleteBlob(w)
        \/ DeleteSave(w)

Spec == Init /\ [][Next]_vars

\* one request at a time; processing a file of a batch may fault
InitFileFaults ==
    InitWith(FALSE, {"blob_write", "getsize", "blob_remove"}, {Absent}, MaxFaultRequests)
SpecFileFaults == InitFileFaults /\ [][Next]_vars

\* one request at a time; every I/O step may fault
InitFaults == InitWith(FALSE, FaultPoints, {Absent}, MaxFaultRequests)
SpecFaults == InitFaults /\ [][Next]_vars

\* requests served concurrently by two threads, no I/O fault
InitConc == InitWith(TRUE, {}, {Absent}, MaxConcRequests)
SpecConc == InitConc /\ [][Next]_vars

\* one request at a time, over a document in any condition
InitAnyDoc ==
    InitWith(FALSE, {}, { [kind |-> k, files |-> <<>>] : k \in DocKinds }, MaxAnyDocRequests)
SpecAnyDoc == InitAnyDoc /\ [][Next]_vars

----------------------------------------------------------------------------
(* Properties *)

StoreFiles == doc.files
Quiescent == \A w \in Workers : Free(w)
Finished(w, kind) == req[w].pc = "done" /\ req[w].kind = kind

\* C1: all id values of the records in the persisted Store are pairwise
\* distinct and all stored_name values are pairwise distinct.
C1_Uniqueness ==
    \A i, j \in DOMAIN StoreFiles :
        i # j => /\ StoreFiles[i].id # StoreFiles[j].id
                 /\ StoreFiles[i].stored_name # StoreFiles[j].stored_name

\* C10: when no request is in progress (requests run one at a time, no I/O
\* fault), the blob paths on disk are exactly the stored_path values of the
\* records of the persisted Store, and each stored_path is
\* <upload_root>/<file_type>/<stored_name>.
C10_StoreDiskAgreement ==
    Quiescent =>
        /\ DOMAIN disk = { x.stored_path : x \in Range(StoreFiles) }
        /\ \A x \in Range(StoreFiles) :
               x.stored_path = <<UPLOAD_FOLDER, x.file_type, x.stored_name>>

\* the entries of the batch a request has processed, by outcome
OkEntries(r) == { i \in DOMAIN r.log : r.log[i].outcome = "ok" }
FailedLog(r) == SelectSeq(r.log, LAMBDA e : e.outcome \notin {"ok", "skipped"})
\* the per-file errors of the entries that failed, in batch order
ExpectedErrors(r) ==
    [k \in DOMAIN FailedLog(r) |->
        <<r.batch[FailedLog(r)[k].idx].filename, FailedLog(r)[k].outcome>>]
\* the Store a request found
FilesBefore(r) == GetFiles(load_files_metadata(r.doc0))

Mismatch(file) ==
    /\ file.filename # ""
    /\ HasDot(file.filename)
    /\ Lower(RawExt(file.filename)) \in ALLOWED_EXTENSIONS
    /\ file.sniff # "MAGIC_ERROR"
    /\ file.sniff \notin expected_mimes(get_file_type(file.filename))

MismatchError(file) == <<file.filename, "File content doesn't match extension">>

\* C5: an entry with an allowed extension whose detected MIME type is
\* outside its file type's allow-list gets the per-file error "content
\* doesn't match extension", no record is appended for it, and no blob with
\* its bytes is on disk once it has been processed.
C5_MismatchRejected ==
    \A w \in Workers :
        req[w].kind = "upload" =>
            LET r == req[w]
            IN  /\ \A i \in DOMAIN r.log :
                    Mismatch(r.batch[i]) =>
                        /\ i \notin OkEntries(r)
                        /\ MismatchError(r.batch[i]) \in Range(r.upload_errors)
                        /\ r.pc = "done" => MismatchError(r.batch[i]) \in Range(r.resp.errors)
                        /\ \A p \in DOMAIN disk : disk[p] # <<r.n, i>>
                /\ r.pc # "idle" /\ ~NoFilesSelected(r.batch) =>
                    Len(r.metadata.files) = Len(FilesBefore(r)) + Cardinality(OkEntries(r))
                /\ r.pc = "done" =>
                    Len(StoreFiles) = Len(FilesBefore(r)) + Cardinality(OkEntries(r))

\* a batch of a mismatching entry and an entry that succeeded has been answered
C5_Witness ==
    \E w \in Workers :
        /\ Finished(w, "upload")
        /\ Len(req[w].batch) = 2
        /\ \E i \in DOMAIN req[w].log : Mismatch(req[w].batch[i])
        /\ Cardinality(OkEntries(req[w])) = 1
        /\ req[w].resp.code = 200

Ids(files) == { x.id : x \in Range(files) }

\* C6: a delete of an id that is not in the Store answers 404 and leaves the
\* document and the disk as they were; a delete of an id that is in the Store
\* answers 200 and removes exactly the record of that id, the others kept in
\* their order; so a delete that follows a successful delete of the same id
\* answers 404 and leaves the document as it was.
C6_DeleteNotFound ==
    \A w \in Workers :
        Finished(w, "delete") =>
            LET r == req[w]
            IN  /\ r.arg \notin Ids(FilesBefore(r)) =>
                    /\ r.resp.code = 404
                    /\ doc = r.doc0
                    /\ disk = r.disk0
                /\ r.arg \in Ids(FilesBefore(r)) =>
                    /\ r.resp.code = 200
                    /\ StoreFiles = SelectSeq(FilesBefore(r), LAMBDA x : x.id # r.arg)
                    /\ Len(StoreFiles) = Len(FilesBefore(r)) - 1
                /\ (r.before.kind = "delete" /\ r.before.arg = r.arg /\ r.before.code = 200) =>
                    /\ r.resp.code = 404
                    /\ doc = r.doc0

\* the second of two deletes of the same id has been answered
C6_Witness ==
    \E w \in Workers :
        /\ Finished(w, "delete")
        /\ req[w].before.kind = "delete"
        /\ req[w].before.arg = req[w].arg
        /\ req[w].before.code = 200
        /\ req[w].resp.code = 404
        /\ Len(StoreFiles) > 0

\* the step in which worker w writes the document and answers
SaveStep(w) == req[w].pc \in {"files", "save"} /\ req'[w].pc = "done"

DeletedBy(w, rec) ==
    /\ req[w].kind = "delete"
    /\ req[w].arg = rec.id
    /\ rec.stored_path \notin DOMAIN disk'

Appended(r) == SubSeq(r.metadata.files, Len(FilesBefore(r)) + 1, Len(r.metadata.files))

\* two uploads that loaded the same document have both answered success,
\* v after w
BothSucceeded(w, v) ==
    /\ w # v
    /\ Finished(w, "upload") /\ req[w].resp.code = 200
    /\ Finished(v, "upload") /\ req[v].resp.code = 200
    /\ req[w].doc0 = req[v].doc0
    /\ prev.n = req[v].n

\* C7: when two uploads that loaded the same Store have both reported
\* success, the persisted Store is the one the later save wrote: the Store
\* both loaded plus the later request's records, without any record of the
\* earlier request.
C7_LostUpdate ==
    \A w, v \in Workers :
        BothSucceeded(w, v) =>
            /\ doc = [kind |-> "store", files |-> req[v].metadata.files]
            /\ StoreFiles = FilesBefore(req[w]) \o Appended(req[v])
            /\ Appended(req[w]) # <<>>
            /\ \A x \in Range(Appended(req[w])) : x \notin Range(StoreFiles)

\* the lost update has happened, and the blob of the lost record is on disk
C7_Witness ==
    \E w, v \in Workers :
        /\ BothSucceeded(w, v)
        /\ \E x \in Range(Appended(req[w])) :
            /\ x \notin Range(StoreFiles)
            /\ x.stored_path \in DOMAIN disk
            /\ disk[x.stored_path][1] = req[w].n

\* C8: once a request has reported a fault, no blob it wrote is on disk
\* without a record of the persisted Store, and no record of the persisted
\* Store lacks a blob that was on disk when the request began.
C8_NoPartialChange ==
    \A w \in Workers :
        (req[w].pc = "done" /\ req[w].faulted # {}) =>
            /\ \A p \in DOMAIN disk :
                   disk[p][1] = req[w].n => \E x \in Range(StoreFiles) : x.stored_path = p
            /\ \A x \in Range(StoreFiles) :
                   x.stored_path \in DOMAIN req[w].disk0 => x.stored_path \in DOMAIN disk

\* an entry that passes both validations
Valid(file) ==
    /\ file.filename # ""
    /\ HasDot(file.filename)
    /\ Lower(RawExt(file.filename)) \in ALLOWED_EXTENSIONS
    /\ ~Mismatch(file)

\* C9: a request served over a document that is absent or is no Store is
\* answered as over the empty Store, never with a 500: a delete and a
\* download with 404, a listing with the empty list, an upload with a
\* success when an entry of the batch is valid.
C9_FailSoft ==
    \A w \in Workers :
        (req[w].pc = "done" /\ req[w].doc0.kind # "store") =>
            LET r == req[w]
            IN  /\ r.resp.code # 500
                /\ r.kind \in {"delete", "download"} => r.resp.code = 404
                /\ r.kind = "files" => r.resp.code = 200 /\ r.resp.files = <<>>
                /\ (r.kind = "upload" /\ ~NoFilesSelected(r.batch)
                        /\ \E i \in DOMAIN r.batch : Valid(r.batch[i])) =>
                    r.resp.code = 200

\* the entries of a batch that carry a filename, and those of them that
\* fail: by a validation, or by a fault while they are processed
Named(r) == { i \in DOMAIN r.batch : r.batch[i].filename # "" }
Failing(r) ==
    { i \in Named(r) :
        \/ ~Valid(r.batch[i])
        \/ \E j \in DOMAIN r.log : r.log[j].idx = i /\ r.log[j].fault # "none" }

\* C4: of the n files of a batch (the entries that carry a filename), k of
\* which fail, every other one is processed; when n-k >= 1 the response has
\* uploaded_count = n-k and k errors, and the persisted Store is the Store
\* before followed by n-k records, in batch order.
C4_PartialBatch ==
    \A w \in Workers :
        Finished(w, "upload") =>
            LET r == req[w]
                good == Named(r) \ Failing(r)
                n == Cardinality(Named(r))
                k == Cardinality(Failing(r))
            IN  /\ \A i \in good : \E j \in DOMAIN r.log : r.log[j].idx = i
                /\ n - k >= 1 =>
                    /\ r.resp.code = 200
                    /\ r.resp.uploaded_count = n - k
                    /\ Len(r.resp.errors) = k
                    /\ Len(StoreFiles) = Len(FilesBefore(r)) + (n - k)
                    /\ SubSeq(StoreFiles, 1, Len(FilesBefore(r))) = FilesBefore(r)
                    /\ \A a, b \in good :
                        a < b =>
                          \E x, y \in DOMAIN StoreFiles :
                            /\ Len(FilesBefore(r)) < x /\ x < y
                            /\ StoreFiles[x].original_name = r.batch[a].filename
                            /\ StoreFiles[y].original_name = r.batch[b].filename

====
